---- MODULE Spec2Model ----
(***************************************************************************)
(* Model of the streaming table parser of src/main.py (class               *)
(* TableExtractor) and of the text normalisation it applies to cells.      *)
(*                                                                         *)
(* Strings are sequences of one-character strings, so that strip(), join() *)
(* and re.sub(r'\s+', ' ', s) are computed character by character.         *)
(***************************************************************************)
EXTENDS Integers, Sequences, FiniteSets, TLC

VARIABLES parser, ev, nfed, nonempty_closes, since_open, doc, wf_pos,
          norm_in, norm_out, store, alone, fresh_cells, run

vars == <<parser, ev, nfed, nonempty_closes, since_open, doc, wf_pos,
          norm_in, norm_out, store, alone, fresh_cells, run>>

\* the state of the streams of several parser instances and of the driver
more == <<store, alone, fresh_cells, run>>

-----------------------------------------------------------------------------
(* Bounds of the model *)

\* longest event stream fed to one parser (document-level streams)
MaxEvents == 12
\* longest event stream of the cell-level streams
MaxCellEvents == 8
\* most characters of text, and most text events, between two cell opens
MaxCellChars == 3
MaxCellFrags == 2
\* most characters of text of the inputs of the normalisation
MaxNormLen == 5
\* longest well-formed event stream
MaxDocEvents == 18
\* longest event stream fed in step to two parser instances
MaxPairEvents == 8
\* most events fed to two interleaved parser instances together
MaxTwoEvents == 13
\* longest document (in events) the driver parses
MaxRunEvents == 12
\* longest stream (in events) in the specification of table isolation
MaxIsoEvents == 9
\* longest stream (in events) fed to the pair with and without header cells
MaxTwinEvents == 10

-----------------------------------------------------------------------------
(* Characters and strings *)

\* two non-whitespace characters, the space and one other whitespace character
Chars == {"a", "b", " ", "\n"}

\* the characters str.strip() removes and the pattern \s matches
IsSpace(c) == c \in {" ", "\n"}

RECURSIVE lstrip(_)
lstrip(s) == IF s # <<>> /\ IsSpace(Head(s)) THEN lstrip(Tail(s)) ELSE s

RECURSIVE rstrip(_)
rstrip(s) ==
    IF s # <<>> /\ IsSpace(s[Len(s)]) THEN rstrip(SubSeq(s, 1, Len(s) - 1)) ELSE s

\* str.strip()
strip(s) == rstrip(lstrip(s))

\* re.sub(r'\s+', ' ', s): every maximal run of whitespace becomes one space
RECURSIVE collapse_ws(_)
collapse_ws(s) ==
    IF s = <<>> THEN <<>>
    ELSE IF IsSpace(Head(s)) THEN <<" ">> \o collapse_ws(lstrip(s))
    ELSE <<Head(s)>> \o collapse_ws(Tail(s))

\* a buggy collapse, re.sub(r'\s\s', ' ', s): every pair of whitespace
\* characters becomes one space
RECURSIVE collapse_pairs(_)
collapse_pairs(s) ==
    IF s = <<>> THEN <<>>
    ELSE IF Len(s) >= 2 /\ IsSpace(s[1]) /\ IsSpace(s[2])
         THEN <<" ">> \o collapse_pairs(SubSeq(s, 3, Len(s)))
    ELSE <<Head(s)>> \o collapse_pairs(Tail(s))

\* ' '.join(parts)
RECURSIVE join_space(_)
join_space(parts) ==
    IF parts = <<>> THEN <<>>
    ELSE IF Len(parts) = 1 THEN parts[1]
    ELSE parts[1] \o <<" ">> \o join_space(Tail(parts))

\* a buggy cell text: pairs of whitespace are collapsed, not runs
cell_text_pairs(current_cell) == collapse_pairs(strip(join_space(current_cell)))

\* the cell text computed when a cell closes (main.py lines 61-62)
cell_text(current_cell) == collapse_ws(strip(join_space(current_cell)))

\* str.lower() on the tag names of the model
lower(tag) ==
    CASE tag = "TABLE" -> "table"
      [] tag = "Tr"    -> "tr"
      [] tag = "TD"    -> "td"
      [] tag = "Th"    -> "th"
      [] OTHER         -> tag

-----------------------------------------------------------------------------
(* TableExtractor *)

\* TableExtractor.__init__
NewParser ==
    [ tables        |-> <<>>,
      current_table |-> <<>>,
      current_row   |-> <<>>,
      current_cell  |-> <<>>,
      in_table      |-> FALSE,
      in_row        |-> FALSE,
      in_cell       |-> FALSE,
      in_header     |-> FALSE,
      table_count   |-> 0 ]

\* handle_starttag, branch 'table'
\* a buggy open-table: the current-table buffer is kept
open_table_keep(p) ==
    [p EXCEPT !.in_table = TRUE, !.table_count = @ + 1]

open_table(p) ==
    [p EXCEPT !.in_table = TRUE, !.current_table = <<>>, !.table_count = @ + 1]

\* handle_starttag, branch 'tr'
open_row(p) == [p EXCEPT !.in_row = TRUE, !.current_row = <<>>]

\* a buggy open of a cell: the fragments of the previous cell are kept
open_cell_keep(p, tag) ==
    [p EXCEPT !.in_cell = TRUE, !.in_header = (lower(tag) = "th")]

\* handle_starttag, branch 'td' / 'th'
open_cell(p, tag) ==
    [p EXCEPT !.in_cell = TRUE, !.in_header = (lower(tag) = "th"),
              !.current_cell = <<>>]

\* a buggy start handler: the table tag is compared as it is written
handle_starttag_exact(p, tag) ==
    IF tag = "table" THEN open_table(p)
    ELSE IF lower(tag) = "tr" /\ p.in_table THEN open_row(p)
    ELSE IF lower(tag) \in {"td", "th"} /\ p.in_row THEN open_cell(p, tag)
    ELSE p

handle_starttag(p, tag) ==
    IF lower(tag) = "table" THEN open_table(p)
    ELSE IF lower(tag) = "tr" /\ p.in_table THEN open_row(p)
    ELSE IF lower(tag) \in {"td", "th"} /\ p.in_row THEN open_cell(p, tag)
    ELSE p

\* a buggy close of a table: the result set is overwritten, not appended to
close_table_overwrite(p) ==
    [p EXCEPT !.tables = IF p.current_table # <<>>
                         THEN <<p.current_table>> ELSE @,
              !.in_table = FALSE,
              !.current_table = <<>>]

\* handle_endtag, branch 'table'
close_table(p) ==
    [p EXCEPT !.tables = IF p.current_table # <<>>
                         THEN Append(@, p.current_table) ELSE @,
              !.in_table = FALSE,
              !.current_table = <<>>]

\* a buggy close of a row: the row is appended even when it has no cell
close_row_keep_empty(p) ==
    [p EXCEPT !.current_table = Append(@, p.current_row),
              !.in_row = FALSE,
              !.current_row = <<>>]

\* a buggy close of a row: the row is put in front of the rows of the table
close_row_prepend(p) ==
    [p EXCEPT !.current_table = IF p.current_row # <<>>
                                THEN <<p.current_row>> \o @ ELSE @,
              !.in_row = FALSE,
              !.current_row = <<>>]

\* handle_endtag, branch 'tr'
close_row(p) ==
    [p EXCEPT !.current_table = IF p.current_row # <<>>
                                THEN Append(@, p.current_row) ELSE @,
              !.in_row = FALSE,
              !.current_row = <<>>]

\* handle_endtag, branch 'td' / 'th'
\* a buggy close-cell: the text of a header cell is not put in the row
close_cell_drop_header(p) ==
    [p EXCEPT !.current_row = IF p.in_header THEN @
                              ELSE Append(@, cell_text(p.current_cell)),
              !.in_cell = FALSE,
              !.in_header = FALSE,
              !.current_cell = <<>>]

close_cell(p) ==
    [p EXCEPT !.current_row = Append(@, cell_text(p.current_cell)),
              !.in_cell = FALSE,
              !.in_header = FALSE,
              !.current_cell = <<>>]

\* a Python exception leaving a handler: a value that is no parser state
Raised == [raised |-> TRUE]

\* a buggy handle_endtag: a close tag without its open tag raises
handle_endtag_strict(p, tag) ==
    IF lower(tag) = "table" /\ p.in_table THEN close_table(p)
    ELSE IF lower(tag) = "tr" /\ p.in_row THEN close_row(p)
    ELSE IF lower(tag) \in {"td", "th"} /\ p.in_cell THEN close_cell(p)
    ELSE IF lower(tag) \in {"table", "tr", "td", "th"} THEN Raised
    ELSE p

\* a buggy handle_endtag: the close of a table is not guarded by in_table
handle_endtag_unguarded(p, tag) ==
    IF lower(tag) = "table" THEN close_table(p)
    ELSE IF lower(tag) = "tr" /\ p.in_row THEN close_row(p)
    ELSE IF lower(tag) \in {"td", "th"} /\ p.in_cell THEN close_cell(p)
    ELSE p

handle_endtag(p, tag) ==
    IF lower(tag) = "table" /\ p.in_table THEN close_table(p)
    ELSE IF lower(tag) = "tr" /\ p.in_row THEN close_row(p)
    ELSE IF lower(tag) \in {"td", "th"} /\ p.in_cell THEN close_cell(p)
    ELSE p

\* a buggy handle_data: text is collected whether or not a cell is open
handle_data_unguarded(p, data) ==
    IF strip(data) # <<>>
    THEN [p EXCEPT !.current_cell = Append(@, strip(data))]
    ELSE p

handle_data(p, data) ==
    IF p.in_cell
    THEN IF strip(data) # <<>>
         THEN [p EXCEPT !.current_cell = Append(@, strip(data))]
         ELSE p
    ELSE p

\* HTMLParser.feed dispatching one parse event to its handler
feed(p, e) ==
    IF e.kind = "start" THEN handle_starttag(p, e.tag)
    ELSE IF e.kind = "end" THEN handle_endtag(p, e.tag)
    ELSE handle_data(p, e.data)

-----------------------------------------------------------------------------
(* Events *)

Tags == {"table", "tr", "td", "th", "b", "TABLE", "TD"}

StartTag(t) == [kind |-> "start", tag |-> t, data |-> <<>>]
EndTag(t)   == [kind |-> "end",   tag |-> t, data |-> <<>>]
Text(d)     == [kind |-> "data",  tag |-> "",  data |-> d]
NoEvent     == [kind |-> "none",  tag |-> "",  data |-> <<>>]

\* text payloads of the document-level streams: plain, blank, to be trimmed
DataSamples == {<<"a">>, <<" ">>, <<" ", "b", "\n">>}

Events ==
    {StartTag(t) : t \in Tags} \cup {EndTag(t) : t \in Tags}
        \cup {Text(d) : d \in DataSamples}

IsOpen(e, name)  == e.kind = "start" /\ lower(e.tag) = name
IsClose(e, name) == e.kind = "end" /\ lower(e.tag) = name

-----------------------------------------------------------------------------
(* Document-level streams: any event in any state *)

\* the document written so far by a well-formed stream: its closed tables,
\* the rows of the open table, the cells of the open row, the text and the tag
\* of the open cell
NewDoc == [tables |-> <<>>, table |-> <<>>, row |-> <<>>, cell |-> <<>>,
           tag |-> ""]

\* the two parser instances main could create, each by TableExtractor()
Instances == {1, 2}

\* the driver main() before its first step. pc is its position, exit its
\* exit status once it has ended (-1 while it runs), tables the result set it read, i the index
\* of the next table to save; attempted, written and log are the files it
\* tried to write, wrote and reported as failed. fetch_failed, seen_table,
\* parsed and outcomes record what happened to it.
NewRun ==
    [ pc           |-> "start",
      exit         |-> -1,
      title        |-> "",
      tables       |-> <<>>,
      i            |-> 0,
      attempted    |-> <<>>,
      written      |-> <<>>,
      log          |-> <<>>,
      fetch_failed |-> FALSE,
      seen_table   |-> FALSE,
      parsed       |-> FALSE,
      outcomes     |-> <<>> ]

MoreInit ==
    /\ store = [i \in Instances |-> NewParser]
    /\ alone = [i \in Instances |-> NewParser]
    /\ fresh_cells = 0
    /\ run = NewRun

Init ==
    /\ parser = NewParser
    /\ ev = NoEvent
    /\ nfed = 0
    /\ nonempty_closes = 0
    /\ since_open = <<>>
    /\ doc = NewDoc
    /\ wf_pos = "idle"
    /\ norm_in = <<>>
    /\ norm_out = <<>>
    /\ MoreInit

Feed(e) ==
    /\ nfed < MaxEvents
    /\ parser' = feed(parser, e)
    /\ ev' = e
    /\ nfed' = nfed + 1
    /\ nonempty_closes' =
          IF IsClose(e, "table") /\ parser.current_table # <<>>
          THEN nonempty_closes + 1 ELSE nonempty_closes
    /\ UNCHANGED <<since_open, doc, wf_pos, norm_in, norm_out>>
    /\ UNCHANGED more

FeedStart == \E t \in Tags : Feed(StartTag(t))
FeedEnd   == \E t \in Tags : Feed(EndTag(t))
FeedData  == \E d \in DataSamples : Feed(Text(d))

Next == FeedStart \/ FeedEnd \/ FeedData

Spec == Init /\ [][Next]_vars

-----------------------------------------------------------------------------
(* Cell-level streams: rich text payloads around the cells of one row.
   since_open records the raw text payloads received since the most recent
   open-cell event that opened a cell. *)

CellTags  == {"table", "tr", "td", "th", "b"}
CellChars == {"a", " ", "\n"}

SeqsUpTo(S, n) == UNION {[1..k -> S] : k \in 0..n}

CellPayloads == SeqsUpTo(CellChars, MaxCellChars)

RECURSIVE TotalLen(_)
TotalLen(ss) == IF ss = <<>> THEN 0 ELSE Len(Head(ss)) + TotalLen(Tail(ss))

CellFeed(e) ==
    /\ nfed < MaxCellEvents
    /\ parser' = feed(parser, e)
    /\ ev' = e
    /\ nfed' = nfed + 1
    /\ since_open' =
          IF (IsOpen(e, "td") \/ IsOpen(e, "th")) /\ parser.in_row THEN <<>>
          ELSE IF e.kind = "data" THEN Append(since_open, e.data)
          ELSE since_open
    /\ UNCHANGED <<nonempty_closes, doc, wf_pos, norm_in, norm_out>>
    /\ UNCHANGED more

CellStart == \E t \in CellTags : CellFeed(StartTag(t))
CellEnd   == \E t \in CellTags : CellFeed(EndTag(t))
CellData  ==
    \E d \in CellPayloads :
        /\ Len(since_open) < MaxCellFrags
        /\ TotalLen(since_open) + Len(d) <= MaxCellChars
        /\ CellFeed(Text(d))

CellNext == CellStart \/ CellEnd \/ CellData

SpecCell == Init /\ [][CellNext]_vars

-----------------------------------------------------------------------------
(* Well-formed, non-nested streams: every table, row and cell is opened and
   then closed in proper nesting, a row is closed only with a cell in it and
   a table only with a row in it. doc is the document the stream writes. *)

WFTexts == {<<"a">>, <<"b">>}

WFFeed(e) ==
    /\ nfed < MaxDocEvents
    /\ parser' = feed(parser, e)
    /\ ev' = e
    /\ nfed' = nfed + 1
    /\ UNCHANGED <<nonempty_closes, since_open, norm_in, norm_out>>
    /\ UNCHANGED more

WFOpenTable ==
    /\ wf_pos = "idle"
    /\ WFFeed(StartTag("table"))
    /\ wf_pos' = "table"
    /\ doc' = doc

WFOpenRow ==
    /\ wf_pos = "table"
    /\ WFFeed(StartTag("tr"))
    /\ wf_pos' = "row"
    /\ doc' = doc

WFOpenCell ==
    /\ wf_pos = "row"
    /\ \E t \in {"td", "th"} :
          /\ WFFeed(StartTag(t))
          /\ doc' = [doc EXCEPT !.tag = t, !.cell = <<>>]
    /\ wf_pos' = "cell"

WFText ==
    /\ wf_pos = "cell"
    /\ \E d \in WFTexts :
          /\ WFFeed(Text(d))
          /\ doc' = [doc EXCEPT !.cell = d]
    /\ wf_pos' = "text"

WFCloseCell ==
    /\ wf_pos \in {"cell", "text"}
    /\ WFFeed(EndTag(doc.tag))
    /\ doc' = [doc EXCEPT !.row = Append(@, doc.cell), !.cell = <<>>, !.tag = ""]
    /\ wf_pos' = "row"

WFCloseRow ==
    /\ wf_pos = "row"
    /\ doc.row # <<>>
    /\ WFFeed(EndTag("tr"))
    /\ doc' = [doc EXCEPT !.table = Append(@, doc.row), !.row = <<>>]
    /\ wf_pos' = "table"

WFCloseTable ==
    /\ wf_pos = "table"
    /\ doc.table # <<>>
    /\ WFFeed(EndTag("table"))
    /\ doc' = [doc EXCEPT !.tables = Append(@, doc.table), !.table = <<>>]
    /\ wf_pos' = "idle"

WFNext ==
    \/ WFOpenTable \/ WFOpenRow \/ WFOpenCell \/ WFText
    \/ WFCloseCell \/ WFCloseRow \/ WFCloseTable

SpecWF == Init /\ [][WFNext]_vars

-----------------------------------------------------------------------------
(* The normalisation as a function: norm_in is the list of text payloads of
   one cell, norm_out the cell string the parser produces for it, followed by
   the result of normalising that string again. *)

\* the lists of non-empty payloads of at most n characters in all
RECURSIVE PayloadLists(_)
PayloadLists(n) ==
    {<<>>} \cup
    UNION { { <<d>> \o rest : d \in [1..k -> CellChars],
                              rest \in PayloadLists(n - k) } : k \in 1..n }

RECURSIVE FeedTexts(_, _)
FeedTexts(p, payloads) ==
    IF payloads = <<>> THEN p
    ELSE FeedTexts(feed(p, Text(Head(payloads))), Tail(payloads))

\* the row of <table><tr><td> payloads </td>, as the parser builds it
ParsedRow(payloads) ==
    LET opened == feed(feed(feed(NewParser, StartTag("table")),
                            StartTag("tr")), StartTag("td"))
    IN  feed(FeedTexts(opened, payloads), EndTag("td")).current_row

NormInit ==
    /\ parser = NewParser
    /\ ev = NoEvent
    /\ nfed = 0
    /\ nonempty_closes = 0
    /\ since_open = <<>>
    /\ doc = NewDoc
    /\ wf_pos = "idle"
    /\ norm_in \in PayloadLists(MaxNormLen)
    /\ norm_out = <<>>
    /\ MoreInit

NormParse ==
    /\ norm_out = <<>>
    /\ norm_out' = ParsedRow(norm_in)
    /\ UNCHANGED <<parser, ev, nfed, nonempty_closes, since_open, doc, wf_pos,
                   norm_in>>
    /\ UNCHANGED more

NormAgain ==
    /\ Len(norm_out) = 1
    /\ norm_out' = Append(norm_out, cell_text(<<norm_out[1]>>))
    /\ UNCHANGED <<parser, ev, nfed, nonempty_closes, since_open, doc, wf_pos,
                   norm_in>>
    /\ UNCHANGED more

NormNext == NormParse \/ NormAgain

SpecNorm == NormInit /\ [][NormNext]_vars

-----------------------------------------------------------------------------
(* Shapes of values *)

Strings   == Seq(Chars)
RowsOf    == Seq(Strings)
TablesOf  == Seq(RowsOf)

\* p is a parser state: the fields __init__ creates, each of its Python type
ParserOK(p) ==
    /\ DOMAIN p = DOMAIN NewParser
    /\ p.tables \in Seq(TablesOf)
    /\ p.current_table \in TablesOf
    /\ p.current_row \in RowsOf
    /\ p.current_cell \in Seq(Strings)
    /\ p.in_table \in BOOLEAN /\ p.in_row \in BOOLEAN
    /\ p.in_cell \in BOOLEAN /\ p.in_header \in BOOLEAN
    /\ p.table_count \in Nat

IsPrefix(s, t) == Len(s) <= Len(t) /\ SubSeq(t, 1, Len(s)) = s

\* the precondition of event e in state p (the guard of its branch)
Pre(p, e) ==
    \/ IsOpen(e, "table")
    \/ IsOpen(e, "tr") /\ p.in_table
    \/ (IsOpen(e, "td") \/ IsOpen(e, "th")) /\ p.in_row
    \/ IsClose(e, "table") /\ p.in_table
    \/ IsClose(e, "tr") /\ p.in_row
    \/ (IsClose(e, "td") \/ IsClose(e, "th")) /\ p.in_cell
    \/ e.kind = "data" /\ p.in_cell

-----------------------------------------------------------------------------
(* C1: the parser is total. In every reachable state the parser state is
   well formed, and every event (any open tag, any close tag, any text) is
   accepted there: its handler returns a well-formed parser state, never an
   exception. *)
C1_Total ==
    /\ ParserOK(parser)
    /\ \A e \in Events : ParserOK(feed(parser, e))

\* a table closed while its row and cell are still open, handled without error
C1_Witness ==
    /\ IsClose(ev, "table")
    /\ ~parser.in_table /\ parser.in_row /\ parser.in_cell
    /\ parser.tables # <<>>

(* C2: empty-container suppression. In every reachable state no table of the
   result set has zero rows, and no row of a result-set table or of the
   current-table buffer has zero cells. *)
C2_NoEmpty ==
    /\ \A i \in 1..Len(parser.tables) :
          /\ parser.tables[i] # <<>>
          /\ \A j \in 1..Len(parser.tables[i]) : parser.tables[i][j] # <<>>
    /\ \A j \in 1..Len(parser.current_table) : parser.current_table[j] # <<>>

\* a second table was opened and closed, in four events, behind a first table
\* of one row: it left no row behind, and the result set holds one table only
C2_Witness ==
    /\ IsClose(ev, "table")
    /\ parser.table_count = 2
    /\ Len(parser.tables) = 1
    /\ nfed = 10

(* C3: the result set is append-only. In every reachable state and for every
   event, the result set before the event is a prefix of the result set after
   it. *)
C3_AppendOnly ==
    \A e \in Events : IsPrefix(parser.tables, feed(parser, e).tables)

\* a second table has been appended behind the first
C3_Witness == Len(parser.tables) = 2 /\ IsClose(ev, "table")

(* C4: the result set shows only fully-closed tables. In every reachable
   state an event changes the result set only if it is a close-table event
   received while in_table is true; every other event leaves it unchanged. *)
C4_OnlyCloseTable ==
    \A e \in Events :
        feed(parser, e).tables # parser.tables
            => IsClose(e, "table") /\ parser.in_table

\* one closed table is visible while the rows of the open table are not
C4_Witness ==
    /\ parser.in_table
    /\ Len(parser.current_table) = 1
    /\ Len(parser.tables) = 1
    /\ IsClose(ev, "tr")

(* C5: the number of tables in the result set equals the number of
   close-table events of the stream at which the current-table buffer was
   non-empty at the moment of the close (a stream may end after any event). *)
C5_CountOfTables == Len(parser.tables) = nonempty_closes

(* C6: an open-table event received while a table is already open is a no-op
   at the outer level: it does not discard the rows the outer table has
   collected so far. *)
C6_NestedOpenKeepsRows ==
    \A e \in Events :
        IsOpen(e, "table") /\ parser.in_table
            => feed(parser, e).current_table = parser.current_table

(* C8: every event whose precondition is not met leaves the whole parser
   state unchanged: a close table/row/cell tag while the corresponding flag is
   false, an open row while no table is open, an open cell while no row is
   open, text while no cell is open, and any tag that is not table, tr, td or
   th. *)
C8_IgnoredEvents ==
    \A e \in Events : ~Pre(parser, e) => feed(parser, e) = parser

\* <table><tr></td>: the stray close cell was the third event and the open
\* row holds no cell
C8_Witness ==
    /\ nfed = 3
    /\ IsClose(ev, "td")
    /\ parser.in_row /\ ~parser.in_cell
    /\ parser.current_row = <<>>

(* C9: when a cell closes, the string appended to the current row is built
   from exactly the text payloads received since the cell's open-cell event,
   in arrival order: each payload trimmed, the payloads empty after trimming
   dropped, the rest joined with single spaces, whitespace runs collapsed to
   one space and the result trimmed. *)
NonEmpty(s) == s # <<>>

Described(payloads) ==
    strip(collapse_ws(join_space(
        SelectSeq([i \in 1..Len(payloads) |-> strip(payloads[i])], NonEmpty))))

C9_CellText ==
    \A t \in {"td", "th"} :
        parser.in_cell
            => feed(parser, EndTag(t)).current_row
                   = Append(parser.current_row, Described(since_open))

\* text "a ", an inline tag, text "a", its close, then the close of the cell:
\* the row holds "a a"
C9_Witness ==
    /\ nfed = 8
    /\ IsClose(ev, "td")
    /\ since_open = << <<"a", " ">>, <<"a">> >>
    /\ parser.current_row = << <<"a", " ", "a">> >>

(* C7: for every well-formed, non-nested event stream the result set holds
   exactly the tables of the stream in document order, each with its rows in
   document order and each row with its cells in document order, th and td
   cells alike; the buffers hold the rows and cells of the open table and
   row. *)
C7_DocumentOrder ==
    /\ parser.tables = doc.tables
    /\ parser.current_table = doc.table
    /\ parser.current_row = doc.row

\* a header row a,b followed by a data row b,a: one table of these two rows
C7_Witness ==
    /\ wf_pos = "idle"
    /\ nfed = 18
    /\ parser.tables = << << <<<<"a">>, <<"b">>>>, <<<<"b">>, <<"a">>>> >> >>

(* C10: whitespace normalisation is idempotent. For every cell string the
   parser produces, applying the cell normalisation (join, collapse
   whitespace runs to one space, trim) to that string again yields the same
   string. *)
C10_Idempotent == Len(norm_out) = 2 => norm_out[2] = norm_out[1]

\* a payload with a run of three whitespace characters inside and whitespace
\* around gave "a a", and normalising "a a" again gave "a a"
C10_Witness ==
    /\ norm_in = << <<"a", " ", "\n", " ", "a">> >>
    /\ norm_out = << <<"a", " ", "a">>, <<"a", " ", "a">> >>

-----------------------------------------------------------------------------
(* Several parser instances. __init__ binds every field to the instance
   (self.tables = [] ...), so a handler running on instance i reads and
   writes the fields of instance i only. *)

\* a buggy binding: in_table is kept on the class, one flag for all instances
feed_instance_class_flag(st, i, e) ==
    [j \in DOMAIN st |->
        IF j = i THEN feed(st[i], e)
        ELSE [st[j] EXCEPT !.in_table = feed(st[i], e).in_table]]

\* a buggy binding: tables is a class attribute, one list for all instances
feed_instance_class_list(st, i, e) ==
    [j \in DOMAIN st |->
        IF j = i THEN feed(st[i], e)
        ELSE [st[j] EXCEPT !.tables = feed(st[i], e).tables]]

\* one event handled by instance i of the instances st
feed_instance(st, i, e) == [st EXCEPT ![i] = feed(st[i], e)]

(* Two fresh instances fed the same stream in step: each event goes to
   instance 1, then to instance 2. *)
PairFeed(e) ==
    /\ nfed < MaxPairEvents
    /\ store' = feed_instance(feed_instance(store, 1, e), 2, e)
    /\ ev' = e
    /\ nfed' = nfed + 1
    /\ UNCHANGED <<parser, nonempty_closes, since_open, doc, wf_pos, norm_in,
                   norm_out, alone, fresh_cells, run>>

PairStart == \E t \in Tags : PairFeed(StartTag(t))
PairEnd   == \E t \in Tags : PairFeed(EndTag(t))
PairData  == \E d \in DataSamples : PairFeed(Text(d))

PairNext == PairStart \/ PairEnd \/ PairData

SpecPair == Init /\ [][PairNext]_vars

(* C11: parsing is deterministic. Two fresh parser instances fed the same
   event stream in step are in identical states after every event, and so
   hold identical result sets at the end. *)
C11_Deterministic == store[1] = store[2]

\* both instances hold the table of <table><tr><td>a</td></tr></table>
C11_Witness ==
    /\ IsClose(ev, "table")
    /\ store[1].tables = << << << <<"a">> >> >> >>
    /\ store[2].tables = << << << <<"a">> >> >> >>

-----------------------------------------------------------------------------
(* Two instances, each fed its own stream, the events of the two feeds
   interleaved in any order. alone[i] is a parser fed the stream of instance
   i and nothing else. *)

CoreTags   == {"table", "tr", "td"}
CoreEvents ==
    {StartTag(t) : t \in CoreTags} \cup {EndTag(t) : t \in CoreTags}
        \cup {Text(<<"a">>)}

TwoFeed(i, e) ==
    /\ nfed < MaxTwoEvents
    /\ store' = feed_instance(store, i, e)
    /\ alone' = [alone EXCEPT ![i] = feed(alone[i], e)]
    /\ nfed' = nfed + 1
    /\ UNCHANGED <<parser, ev, nonempty_closes, since_open, doc, wf_pos,
                   norm_in, norm_out, fresh_cells, run>>

TwoFirst  == \E e \in CoreEvents : TwoFeed(1, e)
TwoSecond == \E e \in CoreEvents : TwoFeed(2, e)

TwoNext == TwoFirst \/ TwoSecond

SpecTwo == Init /\ [][TwoNext]_vars

(* C12: parser instances share no mutable state. When two instances are
   each fed their own stream, interleaved in any order, the result set of
   each equals the result set it produces when its stream is fed alone. *)
C12_Isolated == \A i \in Instances : store[i].tables = alone[i].tables

\* instance 1 holds a table with the cell "a", instance 2 a table with an
\* empty cell
C12_Witness ==
    /\ store[1].tables = << << << <<"a">> >> >> >>
    /\ store[2].tables = << << << <<>> >> >> >>
    /\ store[1].table_count = 1 /\ store[2].table_count = 1

-----------------------------------------------------------------------------
(* The driver main(): create the output directory, fetch the document, parse
   it, and save every table to its own file. *)

\* extract_page_title: a cleaned title, or the default name
Titles == {"t", "webpage_tables"}

\* f"{page_title}_table_{i}.csv"
Filename(title, i) == <<title, "_table_", i, ".csv">>

\* main's handler of an exception: print it and sys.exit(1)
main_except(r) == [r EXCEPT !.pc = "failed", !.exit = 1]

\* main without arguments: usage and sys.exit(1)
usage(r) == [r EXCEPT !.pc = "usage", !.exit = 1]

\* create_output_directory: it re-raises its error
create_output_directory(r, ok) ==
    IF ok THEN [r EXCEPT !.pc = "fetch"] ELSE main_except(r)

\* a buggy fetch: the error is swallowed and an empty document returned
fetch_html_content_swallow(r, ok, title) ==
    [r EXCEPT !.pc = "parse", !.title = IF ok THEN title ELSE "webpage_tables"]

\* fetch_html_content followed by extract_page_title: a failed fetch raises
fetch_html_content(r, ok, title) ==
    IF ok THEN [r EXCEPT !.pc = "parse", !.title = title] ELSE main_except(r)

\* a buggy end of the parse: an empty result set is an error
read_tables_strict(r, tables) ==
    IF tables = <<>>
    THEN main_except([r EXCEPT !.tables = tables])
    ELSE [r EXCEPT !.tables = tables, !.pc = "save", !.i = 1]

\* tables = parser.tables; without tables main reports it and returns
read_tables(r, tables) ==
    IF tables = <<>>
    THEN [r EXCEPT !.tables = tables, !.pc = "done", !.exit = 0]
    ELSE [r EXCEPT !.tables = tables, !.pc = "save", !.i = 1]

\* a buggy save: a failed write raises instead of being reported
save_table_to_csv_raises(r, table, filename, ok) ==
    IF table = <<>> THEN r
    ELSE IF ok
    THEN [r EXCEPT !.attempted = Append(@, filename),
                   !.written = Append(@, filename)]
    ELSE main_except([r EXCEPT !.attempted = Append(@, filename)])

\* save_table_to_csv: an empty table is skipped, a failed write is reported
save_table_to_csv(r, table, filename, ok) ==
    IF table = <<>> THEN r
    ELSE IF ok
    THEN [r EXCEPT !.attempted = Append(@, filename),
                   !.written = Append(@, filename)]
    ELSE [r EXCEPT !.attempted = Append(@, filename),
                   !.log = Append(@, filename)]

\* one round of main's loop over the tables, and its end
save_next(r, ok) ==
    LET table == r.tables[r.i]
        saved == IF table # <<>>
                 THEN save_table_to_csv(r, table, Filename(r.title, r.i), ok)
                 ELSE r
    IN  IF saved.pc = "failed" THEN saved
        ELSE IF r.i = Len(r.tables)
        THEN [saved EXCEPT !.i = r.i + 1, !.pc = "done", !.exit = 0]
        ELSE [saved EXCEPT !.i = r.i + 1]

rest == <<nonempty_closes, since_open, doc, wf_pos, norm_in, norm_out, store,
          alone, fresh_cells>>

RunUsage ==
    /\ run.pc = "start"
    /\ run' = usage(run)
    /\ UNCHANGED <<parser, ev, nfed, rest>>

RunCreateDir ==
    /\ run.pc = "start"
    /\ \E ok \in BOOLEAN : run' = create_output_directory(run, ok)
    /\ UNCHANGED <<parser, ev, nfed, rest>>

RunFetch ==
    /\ run.pc = "fetch"
    /\ \E ok \in BOOLEAN, title \in Titles :
          run' = [fetch_html_content(run, ok, title)
                     EXCEPT !.fetch_failed = ~ok]
    /\ UNCHANGED <<parser, ev, nfed, rest>>

RunFeed ==
    /\ run.pc = "parse"
    /\ nfed < MaxRunEvents
    /\ \E e \in CoreEvents :
          /\ parser' = feed(parser, e)
          /\ ev' = e
          /\ run' = [run EXCEPT !.seen_table = @ \/ IsOpen(e, "table")]
    /\ nfed' = nfed + 1
    /\ UNCHANGED rest

RunEndOfDocument ==
    /\ run.pc = "parse"
    /\ run' = [read_tables(run, parser.tables) EXCEPT !.parsed = TRUE]
    /\ UNCHANGED <<parser, ev, nfed, rest>>

RunSave ==
    /\ run.pc = "save"
    /\ \E ok \in BOOLEAN :
          run' = [save_next(run, ok) EXCEPT !.outcomes = Append(@, ok)]
    /\ UNCHANGED <<parser, ev, nfed, rest>>

RunNext ==
    \/ RunUsage \/ RunCreateDir \/ RunFetch \/ RunFeed \/ RunEndOfDocument
    \/ RunSave

SpecRun == Init /\ [][RunNext]_vars

(* C13: a failed write of one table does not fail the run. For a result set
   of n tables the driver attempts the files {title}_table_{i}.csv for i from
   1 to n in order; a failed write is reported, the writes of the later
   tables are still attempted, and the run does not end with the error
   exit. *)
C13_WriteFailureSkipped ==
    run.parsed =>
        /\ run.pc # "failed" /\ run.exit # 1
        /\ run.attempted = [k \in 1..Len(run.outcomes) |-> Filename(run.title, k)]
        /\ run.pc = "done" => Len(run.attempted) = Len(parser.tables)
        /\ \A k \in 1..Len(run.outcomes) :
              ~run.outcomes[k] <=>
                  \E j \in 1..Len(run.log) : run.log[j] = Filename(run.title, k)

\* of two tables the first write failed and the second succeeded
C13_Witness ==
    /\ run.pc = "done" /\ run.exit = 0
    /\ Len(run.tables) = 2
    /\ run.outcomes = <<FALSE, TRUE>>
    /\ run.log = <<Filename(run.title, 1)>>
    /\ run.written = <<Filename(run.title, 2)>>

(* C14: while no open-table event has been fed the result set is empty, and
   a run whose parse ends with an empty result set attempts no file and ends
   with the success exit. *)
C14_NoTableNoOutput ==
    /\ ~run.seen_table => parser.tables = <<>>
    /\ (run.parsed /\ parser.tables = <<>>) =>
          /\ run.pc = "done" /\ run.exit = 0
          /\ run.attempted = <<>> /\ run.written = <<>>

\* a document of rows, cells and a close-table but no open-table was parsed
C14_Witness ==
    /\ run.parsed /\ ~run.seen_table
    /\ nfed >= 3 /\ IsClose(ev, "table")
    /\ run.pc = "done" /\ run.exit = 0 /\ run.attempted = <<>>

(* C15: a failed retrieval is fatal: the run ends with the error exit, and no
   event is parsed and no file attempted after it. *)
C15_RetrievalFatal ==
    run.fetch_failed =>
        /\ run.pc = "failed" /\ run.exit = 1
        /\ ~run.parsed /\ nfed = 0 /\ parser = NewParser
        /\ run.attempted = <<>> /\ run.written = <<>>

\* the retrieval failed and the run has ended
C15_Witness == run.fetch_failed /\ run.pc = "failed" /\ run.exit = 1 /\ nfed = 0

-----------------------------------------------------------------------------
\* tag names that differ from table, tr, td, th in letter case only
CaseVariants == {"TABLE", "Tr", "TD", "Th"}

(* C16: tag names are matched without regard to letter case. In every
   reachable state an open or a close event whose name differs from table,
   tr, td or th in letter case only takes the parser to the same state as
   the event with the lower-case name. *)
C16_CaseInsensitive ==
    \A tag \in CaseVariants :
        /\ lower(tag) \in {"table", "tr", "td", "th"} /\ lower(tag) # tag
        /\ feed(parser, StartTag(tag)) = feed(parser, StartTag(lower(tag)))
        /\ feed(parser, EndTag(tag)) = feed(parser, EndTag(lower(tag)))

\* a table opened by <TABLE> got a cell by <TD> and was closed by </TABLE>
C16_Witness ==
    /\ ev = EndTag("TABLE")
    /\ parser.table_count = 1
    /\ parser.tables = << << << <<"a">> >> >> >>
    /\ feed(parser, StartTag("TABLE")) # parser
    /\ feed(parser, StartTag("TABLE")).table_count = 2

(* C17: the containers are nested in every reachable state: a cell is open
   only while a row is open, and a row is open only while a table is open. *)
C17_Nested ==
    /\ parser.in_cell => parser.in_row
    /\ parser.in_row => parser.in_table

(* C18: the first close-table event received while a table is open ends the
   collection, however many open-table events came before it: it appends the
   current-table buffer if that is non-empty and sets table-open to false.
   While no table is open no event changes the result set (so a further
   close-table appends nothing), only an open-table event opens a table
   again, and that event empties the current-table buffer, so a row closed
   in between reaches no table of the result set. *)
C18_FirstCloseEnds ==
    /\ parser.in_table =>
          LET q == feed(parser, EndTag("table"))
          IN  /\ ~q.in_table
              /\ q.tables = IF parser.current_table # <<>>
                            THEN Append(parser.tables, parser.current_table)
                            ELSE parser.tables
    /\ ~parser.in_table =>
          /\ \A e \in Events : feed(parser, e).tables = parser.tables
          /\ \A e \in Events : ~IsOpen(e, "table") => ~feed(parser, e).in_table
          /\ feed(parser, StartTag("table")).current_table = <<>>

\* after two open-table events one close-table ended the collection with one
\* table, and a row left open by it was closed afterwards
C18_Witness ==
    /\ ~parser.in_table
    /\ parser.table_count = 2
    /\ Len(parser.tables) = 1
    /\ parser.current_table # <<>>
    /\ IsClose(ev, "tr")

-----------------------------------------------------------------------------
(* Table isolation: the parser is fed any stream of table, row and cell
   events, and fresh_cells counts the close-cell events that closed a cell
   since the most recent open-table event. *)

IsoFeed(e) ==
    /\ nfed < MaxIsoEvents
    /\ parser' = feed(parser, e)
    /\ ev' = e
    /\ nfed' = nfed + 1
    /\ fresh_cells' = IF IsOpen(e, "table") THEN 0
                      ELSE IF IsClose(e, "td") /\ parser.in_cell
                      THEN fresh_cells + 1
                      ELSE fresh_cells
    /\ UNCHANGED <<nonempty_closes, since_open, doc, wf_pos, norm_in, norm_out,
                   store, alone, run>>

IsoStart == \E t \in CoreTags : IsoFeed(StartTag(t))

IsoEnd == \E t \in CoreTags : IsoFeed(EndTag(t))

IsoData == IsoFeed(Text(<<"a">>))

IsoNext == IsoStart \/ IsoEnd \/ IsoData

SpecIso == Init /\ [][IsoNext]_vars

RECURSIVE CellCount(_)
\* the number of cells of a table
CellCount(table) ==
    IF table = <<>> THEN 0 ELSE Len(Head(table)) + CellCount(Tail(table))

(* C19: tables are isolated from each other: every cell of a table of the
   result set was produced by a close-cell event after that table's most
   recent open-table event. So the table a close-table event appends has at
   most as many cells as cells were closed since that open-table event. *)
C19_TablesIsolated ==
    LET q == feed(parser, EndTag("table"))
    IN  q.tables # parser.tables =>
            CellCount(q.tables[Len(q.tables)]) <= fresh_cells

-----------------------------------------------------------------------------
(* Header cells: instance 1 is fed a stream, instance 2 the same stream with
   every header-cell (th) open and close event replaced by the data-cell
   (td) event. *)

HeaderTags == {"table", "tr", "td", "th"}

\* the event with th replaced by td
ToData(e) ==
    IF e.kind \in {"start", "end"} /\ lower(e.tag) = "th"
    THEN [e EXCEPT !.tag = "td"]
    ELSE e

TwinFeed(e) ==
    /\ nfed < MaxTwinEvents
    /\ store' = feed_instance(feed_instance(store, 1, e), 2, ToData(e))
    /\ ev' = e
    /\ nfed' = nfed + 1
    /\ UNCHANGED <<parser, nonempty_closes, since_open, doc, wf_pos, norm_in,
                   norm_out, alone, fresh_cells, run>>

TwinStart == \E t \in HeaderTags : TwinFeed(StartTag(t))

TwinEnd == \E t \in HeaderTags : TwinFeed(EndTag(t))

TwinData == TwinFeed(Text(<<"a">>))

TwinNext == TwinStart \/ TwinEnd \/ TwinData

SpecTwin == Init /\ [][TwinNext]_vars

(* C20: the header flag never influences the output. A stream and the same
   stream with every th event replaced by the td event give the same result
   set and the same states apart from the header flag, and the header flag
   is set only while a cell is open. *)
C20_HeaderFlagUnused ==
    /\ store[1].tables = store[2].tables
    /\ [store[1] EXCEPT !.in_header = FALSE]
          = [store[2] EXCEPT !.in_header = FALSE]
    /\ ~store[2].in_header
    /\ store[1].in_header => store[1].in_cell

\* a table of one cell has been collected and a header cell was just opened
\* after the second open-table event; instance 2 got a data cell instead
C20_Witness ==
    /\ store[1].tables = << << << <<>> >> >> >>
    /\ store[1].table_count = 2
    /\ store[1].in_header /\ store[1].in_cell
    /\ ~store[2].in_header /\ store[2].in_cell
    /\ ev = StartTag("th")

====
